---------------------------- MODULE Spec2Model ----------------------------
(***************************************************************************)
(* A model of xarmour (src/xarmour.c): main() reads its standard input     *)
(* line by line, spawns the configured command for every armoured block    *)
(* (-----BEGIN x----- ... -----END x-----), streams the block to the       *)
(* command's standard input through a pipe, waits for the command and      *)
(* turns the wait status into the exit status of the run.                  *)
(*                                                                         *)
(* Bytes are one-character strings and C strings are sequences of bytes.   *)
(* The parent process is a state machine over pc (its position in main);   *)
(* the children it forks are separate processes taking their own steps.    *)
(***************************************************************************)
EXTENDS Integers, Sequences, FiniteSets, TLC

(***************************************************************************)
(* Bounds of the model.                                                    *)
(***************************************************************************)
\* the input is at most MaxLines lines long
MaxLines == 4
\* the threshold given with -t ranges over 1..MaxTimes (0: no -t)
MaxTimes == 2
\* one wait for a child is interrupted at most MaxEINTR times
MaxEINTR == 1
\* the inputs with lines that are not what a marker or a text line should
\* be are at most MaxRawLines lines long
MaxRawLines == 3
\* the inputs of the runs checked for termination are at most MaxFairLines
\* lines long
MaxFairLines == 3
\* the pipe to a child holds at most PipeCapacity bytes nobody has read yet
\* (65536 on Linux; every line of the inputs fits)
PipeCapacity == 40

(***************************************************************************)
(* Program constants.                                                      *)
(***************************************************************************)
MAX_LINE == 1024
\* the field width of %1000[^-] in the two scanf formats
LABEL_WIDTH == 1000
EXIT_SUCCESS == 0
EXIT_FAILURE == 1
EX_OSERR == 71
\* what sscanf returns on an input failure before the first conversion
EOF == -1
SIGPIPE == 13

NUL == "\\0"
NL == "\n"
Dashes == <<"-", "-", "-", "-", "-">>
ScanSet == "%1000[^-]"
WhiteSpace == {" ", "\t", NL}

\* const char *begin = "-----BEGIN %1000[^-]-----";
begin == Dashes \o <<"B", "E", "G", "I", "N", " ", ScanSet>> \o Dashes
\* const char *end = "-----END %1000[^-]-----";
end == Dashes \o <<"E", "N", "D", " ", ScanSet>> \o Dashes

(***************************************************************************)
(* C library functions, as the program uses them.                          *)
(***************************************************************************)
\* strlen: the number of bytes before the first NUL
RECURSIVE strlenFrom(_, _)
strlenFrom(s, i) ==
    IF i > Len(s) \/ s[i] = NUL THEN i - 1 ELSE strlenFrom(s, i + 1)

strlen(s) == strlenFrom(s, 1)

\* the C string held in a buffer: its bytes up to the first NUL
CStr(s) == SubSeq(s, 1, strlen(s))

\* the length of the line fgets takes from position pos of stream s: bytes
\* up to and including the first newline, at most size - 1 of them
RECURSIVE fgetsLen(_, _, _, _)
fgetsLen(s, pos, n, size) ==
    IF n >= size - 1 \/ pos + n > Len(s) THEN n
    ELSE IF s[pos + n] = NL THEN n + 1
    ELSE fgetsLen(s, pos, n + 1, size)

\* the run of bytes outside the scanset's excluded '-' that starts at i
RECURSIVE runNotDash(_, _, _)
runNotDash(s, i, n) ==
    IF n >= LABEL_WIDTH \/ i + n > Len(s) \/ s[i + n] = "-" THEN n
    ELSE runNotDash(s, i, n + 1)

RECURSIVE skipSpace(_, _)
skipSpace(s, i) ==
    IF i <= Len(s) /\ s[i] \in WhiteSpace THEN skipSpace(s, i + 1) ELSE i

\* sscanf over the directives of fmt from j on, reading s from i on, with
\* `got` conversions assigned so far: [n |-> the return value, label |-> the
\* string the %[ conversion stored]
RECURSIVE scanf(_, _, _, _, _, _)
scanf(s, i, fmt, j, got, label) ==
    IF j > Len(fmt) THEN [n |-> got, label |-> label]
    ELSE IF fmt[j] \in WhiteSpace
        THEN scanf(s, skipSpace(s, i), fmt, j + 1, got, label)
    ELSE IF i > Len(s)
        THEN [n |-> IF got = 0 THEN EOF ELSE got, label |-> label]
    ELSE IF fmt[j] = ScanSet
        THEN LET n == runNotDash(s, i, 0)
             IN  IF n = 0 THEN [n |-> got, label |-> label]
                 ELSE scanf(s, i + n, fmt, j + 1, got + 1, SubSeq(s, i, i + n - 1))
    ELSE IF s[i] = fmt[j]
        THEN scanf(s, i + 1, fmt, j + 1, got, label)
    ELSE [n |-> got, label |-> label]

\* sscanf(buf, fmt, label): the scan of the C string in buf (taken from buf
\* once, as a value)
sscanf(buf, fmt) ==
    CHOOSE r \in {scanf(str, 1, fmt, 1, 0, <<>>) : str \in {CStr(buf)}} : TRUE

\* strcmp(a, b) == 0
strcmpEqual(a, b) == CStr(a) = CStr(b)

\* snprintf(buf, sizeof(buf), "%ld", n) for n >= 0
Digit(d) == CASE d = 0 -> "0" [] d = 1 -> "1" [] d = 2 -> "2" [] d = 3 -> "3"
              [] d = 4 -> "4" [] d = 5 -> "5" [] d = 6 -> "6" [] d = 7 -> "7"
              [] d = 8 -> "8" [] d = 9 -> "9"

RECURSIVE FormatLong(_)
FormatLong(n) ==
    IF n < 10 THEN <<Digit(n)>> ELSE FormatLong(n \div 10) \o <<Digit(n % 10)>>

(***************************************************************************)
(* The wait status macros of <sys/wait.h>.                                 *)
(***************************************************************************)
WIFEXITED(st) == st % 128 = 0
WEXITSTATUS(st) == (st \div 256) % 256
WIFSIGNALED(st) == (st % 128) \in 1..126
WTERMSIG(st) == st % 128

\* the wait status of a child that called exit(code) / was killed by sig
StatusExited(code) == code * 256
StatusSignaled(sig) == sig

(***************************************************************************)
(* The inputs of a run.                                                    *)
(***************************************************************************)
LabelA == <<"A">>
LabelB == <<"B">>
BeginLine(l) == Dashes \o <<"B", "E", "G", "I", "N", " ">> \o l \o Dashes \o <<NL>>
EndLine(l) == Dashes \o <<"E", "N", "D", " ">> \o l \o Dashes \o <<NL>>
TextLine == <<"x", NL>>

\* the lines an input is made of
Catalogue ==
    {BeginLine(LabelA), EndLine(LabelA), BeginLine(LabelB), EndLine(LabelB), TextLine}

RECURSIVE Flatten(_)
Flatten(ls) == IF ls = <<>> THEN <<>> ELSE Head(ls) \o Flatten(Tail(ls))

\* The two labels are interchangeable (the program only compares labels), so
\* of two inputs that differ by swapping A and B only the one whose first
\* marker line has label A is taken.
MarkersB == {BeginLine(LabelB), EndLine(LabelB)}
FirstMarkerIsA(ls) ==
    \A i \in 1..Len(ls) :
        ls[i] \in MarkersB => \E j \in 1..(i - 1) : ls[j] \in Catalogue \ (MarkersB \cup {TextLine})

LineSeqs ==
    {ls \in UNION {[1..n -> Catalogue] : n \in 0..MaxLines} : FirstMarkerIsA(ls)}

Inputs == {Flatten(ls) : ls \in LineSeqs}

\* the inputs of at most MaxFairLines lines
FairInputs == {Flatten(ls) : ls \in {l \in LineSeqs : Len(l) <= MaxFairLines}}

\* Lines that are not what a marker or a text line should be: a line with a
\* NUL byte in it, marker lines without the dashes after the label, a BEGIN
\* line with an empty label.
NulLine == <<"a", NUL, "b", NL>>
BareBeginLine == Dashes \o <<"B", "E", "G", "I", "N", " ">> \o LabelA \o <<NL>>
BareEndLine == Dashes \o <<"E", "N", "D", " ">> \o LabelA \o <<NL>>
EmptyBeginLine == Dashes \o <<"B", "E", "G", "I", "N", " ">> \o Dashes \o <<NL>>

RawCatalogue ==
    {BeginLine(LabelA), EndLine(LabelA), NulLine, BareBeginLine, BareEndLine,
     EmptyBeginLine}

RawInputs ==
    {Flatten(ls) : ls \in UNION {[1..n -> RawCatalogue] : n \in 0..MaxRawLines}}

\* the -t option: 0 when it is not given, else its value (>= 1, line 153)
TimesValues == 0..MaxTimes

\* the wait statuses a command can end with
ExitCodes == {0, 7}
Signals == {9}
ChildStatuses ==
    {StatusExited(c) : c \in ExitCodes} \cup {StatusSignaled(sg) : sg \in Signals}

(***************************************************************************)
(* The state.                                                              *)
(***************************************************************************)
VARIABLES
    input,      \* the bytes of standard input
    pos,        \* the position of stdin: the next byte fgets reads
    sigpipe,    \* the disposition of SIGPIPE the process inherited, once a
                \* write has shown it: "unknown", "ignore" (killed if default)
    times,      \* long int times
    index,      \* long int index
    count,      \* long int count
    buffer,     \* char buffer[MAX_LINE]
    blabel,     \* char blabel[MAX_LINE]
    f,          \* pid_t f: -1, or the pid of the open block's child
    wfd,        \* whether pipefd[WRITE_FD] is open in the parent
    pc,         \* the parent's position in main
    eintr,      \* how many times the waitpid loop was interrupted
    procs,      \* the children forked so far, by pid
    result,     \* how the run ended
    lines       \* history: the lines fgets has returned so far

vars == <<input, pos, sigpipe, times, index, count, buffer, blabel, f, wfd, pc,
          eintr, procs, result, lines>>

Running == [kind |-> "running", code |-> 0, line |-> 0]
Return(code, line) == [kind |-> "exit", code |-> code, line |-> line]
Killed(sig, line) == [kind |-> "signal", code |-> sig, line |-> line]

Init ==
    /\ input \in Inputs
    /\ pos = 1
    /\ sigpipe = "unknown"
    /\ times \in TimesValues
    /\ index = 0
    /\ count = 0
    /\ buffer = <<>>
    /\ blabel = <<>>
    /\ f = -1
    /\ wfd = FALSE
    /\ pc = "fgets"
    /\ eintr = 0
    /\ procs = <<>>
    /\ result = Running
    /\ lines = <<>>

\* the same, for the inputs of RawInputs
InitRaw ==
    /\ input \in RawInputs
    /\ pos = 1
    /\ sigpipe = "unknown"
    /\ times \in TimesValues
    /\ index = 0
    /\ count = 0
    /\ buffer = <<>>
    /\ blabel = <<>>
    /\ f = -1
    /\ wfd = FALSE
    /\ pc = "fgets"
    /\ eintr = 0
    /\ procs = <<>>
    /\ result = Running
    /\ lines = <<>>

\* the same, for the inputs of FairInputs
InitFair ==
    /\ input \in FairInputs
    /\ pos = 1
    /\ sigpipe = "unknown"
    /\ times \in TimesValues
    /\ index = 0
    /\ count = 0
    /\ buffer = <<>>
    /\ blabel = <<>>
    /\ f = -1
    /\ wfd = FALSE
    /\ pc = "fgets"
    /\ eintr = 0
    /\ procs = <<>>
    /\ result = Running
    /\ lines = <<>>

(***************************************************************************)
(* The parent: main's read loop.                                           *)
(***************************************************************************)
\* line 176: the line fgets(buffer, sizeof(buffer), stdin) stores in buffer
NextLine == SubSeq(input, pos, pos + fgetsLen(input, pos, 0, MAX_LINE) - 1)

\* (mutant) line 328 with <= for <
FinalStatus_OffByOne(t, c) ==
    IF t # 0
    THEN IF c <= t THEN Return(EXIT_FAILURE, 331) ELSE Return(EXIT_SUCCESS, 336)
    ELSE Return(EXIT_SUCCESS, 340)

\* lines 327-340: the final status
FinalStatus(t, c) ==
    IF t # 0
    THEN IF c < t THEN Return(EXIT_FAILURE, 331) ELSE Return(EXIT_SUCCESS, 336)
    ELSE Return(EXIT_SUCCESS, 340)

\* (mutant) lines 327-340 after closing a block left open, as line 259 does
EndOfInput_ClosesOpenBlock ==
    /\ pc = "fgets"
    /\ pos > Len(input)
    /\ pc' = "done"
    /\ result' = FinalStatus(times, count)
    /\ wfd' = FALSE
    /\ index' = IF f >= 0 THEN index + 1 ELSE index
    /\ UNCHANGED <<input, lines, pos, sigpipe, times, count, buffer, blabel, f,
                   eintr, procs>>

\* line 176: fgets returns NULL at end of input; lines 327-340
EndOfInput ==
    /\ pc = "fgets"
    /\ pos > Len(input)
    /\ pc' = "done"
    /\ result' = FinalStatus(times, count)
    /\ UNCHANGED <<input, lines, pos, sigpipe, times, index, count, buffer, blabel, f,
                   wfd, eintr, procs>>

\* (mutant) line 178 always true: every line is looked at as a BEGIN line
Seeking_Always(pid) == TRUE
\* line 178, line 182: whether this line is looked at as a BEGIN line, and is one
Seeking(pid) == pid < 0
\* (mutant) line 182 taking an END line for a BEGIN line too
BeginMatches_AnyMarker(buf) == sscanf(buf, begin).n = 1 \/ sscanf(buf, end).n = 1
BeginMatches(buf) == sscanf(buf, begin).n = 1

\* lines 176-182, 245: a line is read while no block is open and is no BEGIN
\* line: nothing is done with it
FgetsOutside ==
    /\ pc = "fgets"
    /\ pos <= Len(input)
    /\ \E line \in {NextLine} :
           /\ Seeking(f) /\ ~BeginMatches(line)
           /\ buffer' = line
           /\ lines' = Append(lines, line)
           /\ pos' = pos + Len(line)
    /\ UNCHANGED <<input, sigpipe, times, index, count, blabel, f, wfd, pc,
                   eintr, procs, result>>

\* lines 176-178: a line is read while a block is open; on to line 245
FgetsInside ==
    /\ pc = "fgets"
    /\ pos <= Len(input)
    /\ ~Seeking(f)
    /\ \E line \in {NextLine} :
           /\ buffer' = line
           /\ lines' = Append(lines, line)
           /\ pos' = pos + Len(line)
    /\ pc' = "armour"
    /\ UNCHANGED <<input, sigpipe, times, index, count, blabel, f, wfd, eintr,
                   procs, result>>

\* lines 176-191: a BEGIN line is read while no block is open; pipe() fails
PipeFails ==
    /\ pc = "fgets"
    /\ pos <= Len(input)
    /\ \E line \in {NextLine} :
           /\ Seeking(f) /\ BeginMatches(line)
           /\ buffer' = line
           /\ lines' = Append(lines, line)
           /\ pos' = pos + Len(line)
           /\ blabel' = sscanf(line, begin).label
    /\ pc' = "done"
    /\ result' = Return(EXIT_FAILURE, 190)
    /\ UNCHANGED <<input, sigpipe, times, index, count, f, wfd, eintr, procs>>

\* lines 176-204: a BEGIN line is read while no block is open; fork() fails
ForkFails ==
    /\ pc = "fgets"
    /\ pos <= Len(input)
    /\ \E line \in {NextLine} :
           /\ Seeking(f) /\ BeginMatches(line)
           /\ buffer' = line
           /\ lines' = Append(lines, line)
           /\ pos' = pos + Len(line)
           /\ blabel' = sscanf(line, begin).label
    /\ wfd' = TRUE
    /\ f' = -1
    /\ pc' = "done"
    /\ result' = Return(EXIT_FAILURE, 203)
    /\ UNCHANGED <<input, sigpipe, times, index, count, eintr, procs>>

\* (mutant) lines 211-215 with index and count taken for each other
ChildEnv_Swapped(i, c, t, l) ==
    [XARMOUR_INDEX |-> FormatLong(c),
     XARMOUR_COUNT |-> FormatLong(i),
     XARMOUR_TIMES |-> FormatLong(t),
     XARMOUR_LABEL |-> CStr(l)]

\* lines 209-220: the environment the child sets before execvp
ChildEnv(i, c, t, l) ==
    [XARMOUR_INDEX |-> FormatLong(i),
     XARMOUR_COUNT |-> FormatLong(c),
     XARMOUR_TIMES |-> FormatLong(t),
     XARMOUR_LABEL |-> CStr(l)]

\* lines 176-239: a BEGIN line is read while no block is open; the pipe is
\* made and the child forked, and the parent goes on to line 245
Fork ==
    /\ pc = "fgets"
    /\ pos <= Len(input)
    /\ \E line \in {NextLine} :
           /\ Seeking(f) /\ BeginMatches(line)
           /\ buffer' = line
           /\ lines' = Append(lines, line)
           /\ pos' = pos + Len(line)
           /\ \E l \in {sscanf(line, begin).label} :
                  /\ blabel' = l
                  /\ procs' = Append(procs,
                         [env |-> ChildEnv(index, count, times, l), stdin |-> <<>>,
                          state |-> "forked", status |-> 0, execFailed |-> FALSE,
                          reads |-> FALSE, sawEOF |-> FALSE])
    /\ f' = Len(procs) + 1
    /\ wfd' = TRUE
    /\ pc' = "armour"
    /\ UNCHANGED <<input, sigpipe, times, index, count, eintr, result>>

\* the child's end of the pipe is open while the child has not terminated
ReadEndOpen(p) == p.state \in {"forked", "running"}

\* (mutant) line 255 without the strcmp
EndMatches_AnyLabel(buf, lbl) == sscanf(buf, end).n = 1

\* line 255: the line ends the open block
EndMatches(buf, lbl) ==
    LET e == sscanf(buf, end) IN e.n = 1 /\ strcmpEqual(lbl, e.label)

\* (mutant) lines 257-263 waiting for the child before closing the write end
SeekEnd_WaitsFirst ==
    IF EndMatches(buffer, blabel)
    THEN /\ index' = index + 1
         /\ pc' = "waitpid"
         /\ UNCHANGED wfd
    ELSE /\ pc' = "fgets"
         /\ UNCHANGED <<index, wfd>>

\* lines 255-259, after the write returned
SeekEnd ==
    IF EndMatches(buffer, blabel)
    THEN /\ index' = index + 1
         /\ wfd' = FALSE
         /\ pc' = "waitpid"
    ELSE /\ pc' = "fgets"
         /\ UNCHANGED <<index, wfd>>

\* (mutant) line 249 writing strlen(buffer) - 1 bytes
WriteBytes_ShortByOne(buf) == SubSeq(buf, 1, strlen(buf) - 1)

\* line 249: write(pipefd[WRITE_FD], buffer, strlen(buffer))
WriteBytes(buf) == SubSeq(buf, 1, strlen(buf))

\* (mutant) line 249 on a pipe that takes any number of bytes
PipeHasRoom_Unbounded(p, bytes) == TRUE

\* line 249: the pipe takes the bytes at once if the command is reading its
\* standard input, or if they fit with what lies unread in the pipe; else the
\* write blocks
PipeHasRoom(p, bytes) ==
    (p.state = "running" /\ p.reads) \/ Len(p.stdin) + Len(bytes) <= PipeCapacity

\* lines 245-259: the line goes into the pipe
Write ==
    /\ pc = "armour"
    /\ f >= 0
    /\ ReadEndOpen(procs[f])
    /\ PipeHasRoom(procs[f], WriteBytes(buffer))
    /\ procs' = [procs EXCEPT ![f].stdin = @ \o WriteBytes(buffer)]
    /\ SeekEnd
    /\ UNCHANGED <<input, lines, pos, sigpipe, times, count, buffer, blabel, f, eintr,
                   result>>

\* lines 245-259: nobody reads the pipe and the process was started with
\* SIGPIPE ignored: write fails with EPIPE, which line 250 ignores
WriteFails ==
    /\ pc = "armour"
    /\ f >= 0
    /\ ~ReadEndOpen(procs[f])
    /\ sigpipe' = "ignore"
    /\ SeekEnd
    /\ UNCHANGED <<input, lines, pos, times, count, buffer, blabel, f, eintr,
                   procs, result>>

\* line 249: nobody reads the pipe and SIGPIPE has its default action (the
\* program never sets it): the write kills the process
WriteSigpipe ==
    /\ pc = "armour"
    /\ f >= 0
    /\ ~ReadEndOpen(procs[f])
    /\ sigpipe = "unknown"
    /\ pc' = "done"
    /\ result' = Killed(SIGPIPE, 249)
    /\ UNCHANGED <<input, lines, pos, sigpipe, times, index, count, buffer,
                   blabel, f, wfd, eintr, procs>>

\* line 279: the command was successful
ExitedOk(st) == WIFEXITED(st) /\ WEXITSTATUS(st) = EXIT_SUCCESS

\* (mutant) line 286 never taken
IgnoreFailures_Never(t) == FALSE

\* line 286: must we ignore failures?
IgnoreFailures(t) == t # 0

\* (mutant) line 297 returning status, as line 295 prints it
ExitedResult_RawStatus(st) == Return(st, 297)

\* line 297: return WEXITSTATUS(status)
ExitedResult(st) == Return(WEXITSTATUS(st), 297)

\* (mutant) line 306 without the + 128
SignaledResult_NoOffset(st) == Return(WTERMSIG(st), 306)

\* line 306: return WTERMSIG(status) + 128
SignaledResult(st) == Return(WTERMSIG(st) + 128, 306)

\* (mutant) line 279 without the test of the exit status: every command that
\* exited is counted
Outcome_CountsEveryExit(st, t, c) ==
    IF WIFEXITED(st) THEN [count |-> c + 1, result |-> Running]
    ELSE IF IgnoreFailures(t) THEN [count |-> c, result |-> Running]
    ELSE IF WIFSIGNALED(st) THEN [count |-> c, result |-> SignaledResult(st)]
    ELSE [count |-> c, result |-> Return(EX_OSERR, 315)]

\* lines 278-316: what the wait status st makes of the run: the new count and
\* the result (Running: drop through to line 318)
Outcome(st, t, c) ==
    IF ExitedOk(st) THEN [count |-> c + 1, result |-> Running]
    ELSE IF IgnoreFailures(t) THEN [count |-> c, result |-> Running]
    ELSE IF WIFEXITED(st) THEN [count |-> c, result |-> ExitedResult(st)]
    ELSE IF WIFSIGNALED(st) THEN [count |-> c, result |-> SignaledResult(st)]
    ELSE [count |-> c, result |-> Return(EX_OSERR, 315)]

\* lines 262-318: waitpid returns the child's pid
WaitpidReaps ==
    /\ pc = "waitpid"
    /\ procs[f].state = "exited"
    /\ LET o == Outcome(procs[f].status, times, count)
       IN  /\ count' = o.count
           /\ result' = o.result
           /\ IF o.result = Running
              THEN f' = -1 /\ pc' = "fgets"
              ELSE f' = f /\ pc' = "done"
    /\ procs' = [procs EXCEPT ![f].state = "reaped"]
    /\ eintr' = 0
    /\ UNCHANGED <<input, lines, pos, sigpipe, times, index, buffer, blabel, wfd>>

\* (mutant) lines 262-267 without the loop: an interrupted waitpid is taken
\* for a failed one
WaitpidInterrupted_GivesUp ==
    /\ pc = "waitpid"
    /\ eintr < MaxEINTR
    /\ eintr' = eintr + 1
    /\ pc' = "done"
    /\ result' = Return(EXIT_FAILURE, 275)
    /\ UNCHANGED <<input, lines, pos, sigpipe, times, index, count, buffer, blabel, f,
                   wfd, procs>>

\* lines 263-267: waitpid fails with EINTR and is called again
WaitpidInterrupted ==
    /\ pc = "waitpid"
    /\ eintr < MaxEINTR
    /\ eintr' = eintr + 1
    /\ UNCHANGED <<input, lines, pos, sigpipe, times, index, count, buffer, blabel, f,
                   wfd, pc, procs, result>>

\* (mutant) lines 270-276 behind the test of line 286: with a threshold the
\* failed wait is dropped through like a failed command
WaitpidFails_DroppedWithThreshold ==
    /\ pc = "waitpid"
    /\ IF times # 0
       THEN pc' = "fgets" /\ f' = -1 /\ UNCHANGED result
       ELSE pc' = "done" /\ result' = Return(EXIT_FAILURE, 275) /\ UNCHANGED f
    /\ UNCHANGED <<input, lines, pos, sigpipe, times, index, count, buffer, blabel,
                   wfd, eintr, procs>>

\* lines 263-276: waitpid fails with another error
WaitpidFails ==
    /\ pc = "waitpid"
    /\ pc' = "done"
    /\ result' = Return(EXIT_FAILURE, 275)
    /\ UNCHANGED <<input, lines, pos, sigpipe, times, index, count, buffer, blabel, f,
                   wfd, eintr, procs>>

(***************************************************************************)
(* The child of the open block.                                            *)
(***************************************************************************)
ChildStep == pc # "done" /\ f >= 0

\* line 226: execvp succeeds, the command runs; it is one that reads its
\* standard input as it comes, or one that never reads it
ChildExecs ==
    /\ ChildStep
    /\ procs[f].state = "forked"
    /\ \E r \in BOOLEAN :
           procs' = [procs EXCEPT ![f].state = "running", ![f].reads = r]
    /\ UNCHANGED <<input, lines, pos, sigpipe, times, index, count, buffer, blabel, f,
                   wfd, pc, eintr, result>>

\* lines 226-231: execvp fails and the child returns EXIT_FAILURE from main
ChildExecFails ==
    /\ ChildStep
    /\ procs[f].state = "forked"
    /\ procs' = [procs EXCEPT ![f].state = "exited", ![f].execFailed = TRUE,
                              ![f].status = StatusExited(EXIT_FAILURE)]
    /\ UNCHANGED <<input, lines, pos, sigpipe, times, index, count, buffer, blabel, f,
                   wfd, pc, eintr, result>>

\* the command terminates while the parent still holds the write end open
ChildEndsEarly ==
    /\ ChildStep
    /\ procs[f].state = "running"
    /\ wfd
    /\ \E st \in ChildStatuses :
           procs' = [procs EXCEPT ![f].state = "exited", ![f].status = st]
    /\ UNCHANGED <<input, lines, pos, sigpipe, times, index, count, buffer, blabel, f,
                   wfd, pc, eintr, result>>

\* the command terminates after line 259 closed the write end: if it reads
\* its standard input, it has read it to the end
ChildEnds ==
    /\ ChildStep
    /\ procs[f].state = "running"
    /\ ~wfd
    /\ \E st \in ChildStatuses :
           procs' = [procs EXCEPT ![f].state = "exited", ![f].status = st,
                                  ![f].sawEOF = procs[f].reads]
    /\ UNCHANGED <<input, lines, pos, sigpipe, times, index, count, buffer, blabel, f,
                   wfd, pc, eintr, result>>

Next ==
    \/ FgetsOutside
    \/ FgetsInside
    \/ EndOfInput
    \/ PipeFails
    \/ ForkFails
    \/ Fork
    \/ Write
    \/ WriteFails
    \/ WriteSigpipe
    \/ WaitpidReaps
    \/ WaitpidInterrupted
    \/ WaitpidFails
    \/ ChildExecs
    \/ ChildExecFails
    \/ ChildEndsEarly
    \/ ChildEnds

Spec == Init /\ [][Next]_vars

SpecRaw == InitRaw /\ [][Next]_vars

\* The steps of the parent that a system call returning brings about: fgets
\* returns, pipe and fork succeed, write returns, waitpid returns the pid.
ParentProceeds ==
    \/ FgetsOutside
    \/ FgetsInside
    \/ EndOfInput
    \/ Fork
    \/ Write
    \/ WriteFails
    \/ WaitpidReaps

\* every step of the parent
ParentNext ==
    \/ ParentProceeds
    \/ PipeFails
    \/ ForkFails
    \/ WriteSigpipe
    \/ WaitpidInterrupted
    \/ WaitpidFails

\* the forked child gets to line 226
ChildReachesExec == ChildExecs \/ ChildExecFails

\* a command that reads its standard input terminates once it has read it to
\* the end
ReaderEnds == ChildEnds /\ procs[f].reads

\* main as a sequential program that is scheduled, with children that are
\* scheduled; nothing makes a command that does not read its input terminate
SpecFair ==
    /\ InitFair /\ [][Next]_vars
    /\ WF_vars(ParentProceeds)
    /\ WF_vars(ChildReachesExec)
    /\ WF_vars(ReaderEnds)

ProcStates == {"forked", "running", "exited", "reaped"}

TypeOK ==
    /\ pc \in {"fgets", "armour", "waitpid", "done"}
    /\ f \in {-1} \cup (1..Len(procs))
    /\ index \in Nat /\ count \in Nat /\ times \in TimesValues
    /\ eintr \in 0..MaxEINTR
    /\ sigpipe \in {"unknown", "ignore"}
    /\ pc = "armour" => f >= 0
    /\ (pc = "done") = (result.kind # "running")
    /\ \A k \in 1..Len(procs) : procs[k].state \in ProcStates

(***************************************************************************)
(* What the claims are stated with: the input as lines, and the blocks of  *)
(* an input read off the lines themselves.                                 *)
(***************************************************************************)
IsPrefix(a, b) == Len(a) <= Len(b) /\ a = SubSeq(b, 1, Len(a))
IsSuffix(a, b) == Len(a) <= Len(b) /\ a = SubSeq(b, Len(b) - Len(a) + 1, Len(b))

\* the lines of s, each with its newline
RECURSIVE SplitFrom(_, _, _)
SplitFrom(s, start, i) ==
    IF i > Len(s)
        THEN (IF start > Len(s) THEN <<>> ELSE <<SubSeq(s, start, Len(s))>>)
    ELSE IF s[i] = NL
        THEN <<SubSeq(s, start, i)>> \o SplitFrom(s, i + 1, i + 1)
    ELSE SplitFrom(s, start, i + 1)

SplitLines(s) == SplitFrom(s, 1, 1)

InputLines == SplitLines(input)
LinesRead == SplitLines(SubSeq(input, 1, pos - 1))

\* what the two formats make of a line (tabulated for the lines of the inputs)
MarkerTable[line \in Catalogue \cup RawCatalogue] ==
    [b |-> sscanf(line, begin), e |-> sscanf(line, end)]

AsBegin(line) == IF line \in DOMAIN MarkerTable THEN MarkerTable[line].b ELSE sscanf(line, begin)
AsEnd(line) == IF line \in DOMAIN MarkerTable THEN MarkerTable[line].e ELSE sscanf(line, end)

IsBeginLine(line) == AsBegin(line).n = 1
IsEndLine(line) == AsEnd(line).n = 1
IsEndLineOf(line, l) == LET e == AsEnd(line) IN e.n = 1 /\ e.label = l

\* the armoured blocks of the lines ls from line k on: a block starts at a
\* BEGIN line met outside a block and runs to the next END line of its label
RECURSIVE ScanFrom(_, _, _, _)
ScanFrom(ls, k, open, acc) ==
    IF k > Len(ls) THEN acc
    ELSE IF ~open
        THEN LET b == AsBegin(ls[k])
             IN  IF b.n = 1
                 THEN ScanFrom(ls, k + 1, TRUE,
                          Append(acc, [label |-> b.label, text |-> ls[k],
                                       closed |-> FALSE]))
                 ELSE ScanFrom(ls, k + 1, FALSE, acc)
    ELSE LET n == Len(acc)
             e == AsEnd(ls[k])
             done == e.n = 1 /\ e.label = acc[n].label
         IN  ScanFrom(ls, k + 1, ~done,
                 [acc EXCEPT ![n].text = @ \o ls[k], ![n].closed = done])

Armoured(ls) == ScanFrom(ls, 1, FALSE, <<>>)

\* the children whose command was waited for and had exited with status 0
Successes ==
    Cardinality({k \in 1..Len(procs) :
                    procs[k].state = "reaped" /\ procs[k].status = 0})

\* the return statements of the read loop that give up on a failed system call
PipeFailed == result.line = 190
ForkFailed == result.line = 203
WaitFailed == result.line = 275
\* the return statements after the read loop
AtEndOfInput == pc = "done" /\ result.line \in {331, 336, 340}

(***************************************************************************)
(* C1                                                                      *)
(***************************************************************************)
Labels == {LabelA, LabelB}
IsContentLine(line) == ~IsBeginLine(line) /\ ~IsEndLine(line)

\* the END line of the block of label l that starts before line k: the first
\* line from k on that is not a content line, if it is END l; 0 if there is none
RECURSIVE BlockEnd(_, _, _)
BlockEnd(ls, l, k) ==
    IF k > Len(ls) THEN 0
    ELSE IF ls[k] = EndLine(l) THEN k
    ELSE IF IsContentLine(ls[k]) THEN BlockEnd(ls, l, k + 1)
    ELSE 0

\* ls from line k on as well-formed blocks with labels outside `used`
RECURSIVE ParseBlocks(_, _, _, _)
ParseBlocks(ls, k, used, acc) ==
    IF k > Len(ls) THEN [ok |-> TRUE, blocks |-> acc]
    ELSE IF \E l \in Labels \ used : ls[k] = BeginLine(l) /\ BlockEnd(ls, l, k + 1) > 0
        THEN LET l == CHOOSE l \in Labels \ used : ls[k] = BeginLine(l)
                 e == BlockEnd(ls, l, k + 1)
             IN  ParseBlocks(ls, e + 1, used \cup {l},
                     Append(acc, [label |-> l, text |-> Flatten(SubSeq(ls, k, e))]))
    ELSE [ok |-> FALSE, blocks |-> <<>>]

WellFormed == ParseBlocks(InputLines, 1, {}, <<>>)

\* every child that has terminated ran the command, which read its standard
\* input to the end and exited 0
CommandsReadAndExitZero ==
    \A k \in 1..Len(procs) :
        procs[k].state \in {"exited", "reaped"} =>
            ~procs[k].execFailed /\ procs[k].sawEOF /\ procs[k].status = 0

C2_FirstFailureEndsRun ==
    \A k \in 1..Len(procs) :
        (times = 0 /\ procs[k].state = "reaped"
            /\ procs[k].status % 128 = 0 /\ procs[k].status \div 256 # 0) =>
            /\ pc = "done"
            /\ result.kind = "exit"
            /\ result.code = procs[k].status \div 256
            /\ k = Len(procs)
            /\ IsEndLineOf(buffer, procs[k].env.XARMOUR_LABEL)
            /\ LinesRead[Len(LinesRead)] = buffer

\* block 1's command exits 7 and a BEGIN line is left unread
C2_Witness ==
    /\ times = 0 /\ pc = "done" /\ result.kind = "exit" /\ result.code = 7
    /\ Len(procs) = 1 /\ procs[1].state = "reaped" /\ ~procs[1].execFailed
    /\ pos <= Len(input) /\ IsBeginLine(NextLine)

(***************************************************************************)
(* C3                                                                      *)
(***************************************************************************)
\* C3: with a threshold, the wait outcome of a block whose command exited
\* nonzero or was killed by a signal never ends the run (no return at lines
\* 297, 306, 315) and is not counted as a success; the run goes on to the end
\* of the input, where a command has been spawned for every block of the
\* input, also for the blocks after the threshold was reached.
C3_ThresholdNeverStops ==
    times # 0 =>
        /\ result.line \notin {297, 306, 315, 340}
        /\ count = Successes
        /\ AtEndOfInput =>
               /\ pos > Len(input)
               /\ Len(procs) = Len(Armoured(InputLines))

\* times = 1: block 1 succeeds (the threshold is reached), block 2 is still
\* spawned and its command is killed by a signal
C3_Witness ==
    /\ times = 1 /\ AtEndOfInput /\ result.code = 0
    /\ Len(procs) = 2
    /\ procs[1].state = "reaped" /\ procs[1].status = 0
    /\ procs[2].state = "reaped" /\ procs[2].status = 9
    /\ count = 1

(***************************************************************************)
(* C4                                                                      *)
(***************************************************************************)
\* C4: when the run ends at the end of the input, the exit status is 0 if
\* there is no threshold, and with a threshold T it is 0 if at least T
\* commands exited 0 and 1 otherwise.
C4_FinalStatus ==
    AtEndOfInput =>
        /\ pos > Len(input)
        /\ result.kind = "exit"
        /\ times = 0 => result.code = 0
        /\ times # 0 => result.code = (IF Successes >= times THEN 0 ELSE 1)
        /\ count = Successes

\* the threshold is just reached
C4_Witness ==
    AtEndOfInput /\ times = 2 /\ Successes = 2 /\ result.code = 0

(***************************************************************************)
(* C5                                                                      *)
(***************************************************************************)
\* C5: a child is spawned only by a BEGIN line read while no block is open,
\* and what a child is sent is part of its block, from the BEGIN line on: no
\* line read outside a block (text or a stray END line) is written to a child
\* or spawns a command.
C5_OutsideIgnored ==
    \A blocks \in {Armoured(lines)} :
        /\ Len(procs) <= Len(blocks)
        /\ (~PipeFailed /\ ~ForkFailed) => Len(procs) = Len(blocks)
        /\ \A k \in 1..Len(procs) : IsPrefix(procs[k].stdin, blocks[k].text)

\* text, a block, a stray END line: one child, sent its block alone
C5_Witness ==
    /\ input = TextLine \o BeginLine(LabelA) \o EndLine(LabelA) \o EndLine(LabelB)
    /\ AtEndOfInput
    /\ Len(procs) = 1
    /\ procs[1].stdin = BeginLine(LabelA) \o EndLine(LabelA)

(***************************************************************************)
(* C6                                                                      *)
(***************************************************************************)
\* the label of the open block, as its child was given it
OpenLabel == procs[f].env.XARMOUR_LABEL

\* C6: the block of label L is closed by an END line of label L and by no
\* other line: after a line that is not END L the block is still open (the
\* write end open, index unchanged, no wait), and an END line of another label
\* has gone to the child like any line; the wait for the child begins only
\* after an END line of label L.
C6_ExactLabelCloses ==
    /\ (pc = "fgets" /\ f >= 0) =>
           /\ ~IsEndLineOf(buffer, OpenLabel)
           /\ wfd
           /\ index = f - 1
           /\ (IsEndLine(buffer) /\ ReadEndOpen(procs[f])) =>
                  IsSuffix(buffer, procs[f].stdin)
    /\ pc = "waitpid" =>
           /\ IsEndLineOf(buffer, OpenLabel)
           /\ ~wfd
           /\ index = f

\* END B is read in the block of label A
C6_Witness ==
    /\ pc = "fgets" /\ f = 1 /\ wfd /\ index = 0
    /\ OpenLabel = LabelA
    /\ buffer = EndLine(LabelB)
    /\ procs[1].stdin = BeginLine(LabelA) \o EndLine(LabelB)

(***************************************************************************)
(* C7                                                                      *)
(***************************************************************************)
\* C7: with no threshold, a block whose child is found to have been
\* terminated by signal N ends the run with exit status 128 + N as the
\* block is closed, and no later block is processed.
C7_SignalEndsRun ==
    \A k \in 1..Len(procs) :
        (times = 0 /\ procs[k].state = "reaped" /\ procs[k].status \in Signals) =>
            /\ pc = "done"
            /\ result.kind = "exit"
            /\ result.code = 128 + procs[k].status
            /\ k = Len(procs)
            /\ IsEndLineOf(buffer, procs[k].env.XARMOUR_LABEL)
            /\ LinesRead[Len(LinesRead)] = buffer

\* block 1's command is killed by signal 9 and a BEGIN line is left unread
C7_Witness ==
    /\ times = 0 /\ pc = "done" /\ result.kind = "exit" /\ result.code = 137
    /\ Len(procs) = 1 /\ procs[1].state = "reaped" /\ procs[1].status = 9
    /\ pos <= Len(input) /\ IsBeginLine(NextLine)

(***************************************************************************)
(* C8                                                                      *)
(***************************************************************************)
\* C8: a spawn failure for a block (the pipe cannot be created, the process
\* cannot be forked, or the command cannot be executed) is fatal for the run,
\* with or without a threshold: once the parent has met the failure (for a
\* command that could not be executed: once it has waited for the child), the
\* run has ended with exit status 1 and no later block is processed.
C8_SpawnFailureIsFatal ==
    /\ (PipeFailed \/ ForkFailed) =>
           pc = "done" /\ result.kind = "exit" /\ result.code = 1
    /\ \A k \in 1..Len(procs) :
           (procs[k].execFailed /\ procs[k].state = "reaped") =>
               /\ pc = "done" /\ result.kind = "exit" /\ result.code = 1
               /\ k = Len(procs)

(***************************************************************************)
(* C9                                                                      *)
(***************************************************************************)
DigitValue(ch) ==
    CASE ch = "0" -> 0 [] ch = "1" -> 1 [] ch = "2" -> 2 [] ch = "3" -> 3
      [] ch = "4" -> 4 [] ch = "5" -> 5 [] ch = "6" -> 6 [] ch = "7" -> 7
      [] ch = "8" -> 8 [] ch = "9" -> 9

\* the number a string of decimal digits stands for
RECURSIVE Atol(_)
Atol(str) ==
    IF str = <<>> THEN 0
    ELSE 10 * Atol(SubSeq(str, 1, Len(str) - 1)) + DigitValue(str[Len(str)])

IsNumber(str) ==
    /\ str # <<>>
    /\ \A i \in 1..Len(str) :
           str[i] \in {"0", "1", "2", "3", "4", "5", "6", "7", "8", "9"}

\* the blocks closed before child k was forked, and those of them whose
\* command exited 0
ClosedBefore(k) == {j \in 1..(k - 1) : procs[j].state = "reaped"}
SucceededBefore(k) == {j \in ClosedBefore(k) : procs[j].status = 0}

\* C9: every child's XARMOUR_INDEX is the number of blocks closed before its
\* block was opened and its XARMOUR_COUNT the number of those whose command
\* exited 0; the child's own outcome changes neither.
C9_IndexAndCount ==
    \A k \in 1..Len(procs) :
        /\ IsNumber(procs[k].env.XARMOUR_INDEX)
        /\ IsNumber(procs[k].env.XARMOUR_COUNT)
        /\ Atol(procs[k].env.XARMOUR_INDEX) = Cardinality(ClosedBefore(k))
        /\ Atol(procs[k].env.XARMOUR_COUNT) = Cardinality(SucceededBefore(k))
        /\ Cardinality(ClosedBefore(k)) = k - 1

\* the second child after a failed first block, itself successful
C9_Witness ==
    /\ Len(procs) = 2
    /\ procs[1].state = "reaped" /\ procs[1].status = StatusExited(7)
    /\ procs[2].state = "reaped" /\ procs[2].status = 0
    /\ procs[2].env.XARMOUR_INDEX = <<"1">>
    /\ procs[2].env.XARMOUR_COUNT = <<"0">>

(***************************************************************************)
(* C10                                                                     *)
(***************************************************************************)
\* C10: XARMOUR_TIMES in every child's environment is the threshold when -t
\* was given, and is unset or empty when it was not.
C10_TimesUnsetWithoutThreshold ==
    \A k \in 1..Len(procs) :
        IF times # 0
        THEN /\ "XARMOUR_TIMES" \in DOMAIN procs[k].env
             /\ IsNumber(procs[k].env.XARMOUR_TIMES)
             /\ Atol(procs[k].env.XARMOUR_TIMES) = times
        ELSE \/ "XARMOUR_TIMES" \notin DOMAIN procs[k].env
             \/ procs[k].env.XARMOUR_TIMES = <<>>

(***************************************************************************)
(* C11                                                                     *)
(***************************************************************************)
\* the children the parent has waited for
Reaped == {k \in 1..Len(procs) : procs[k].state = "reaped"}

\* C11: at most one child is unreaped, the last one forked, and an open
\* write end is that child's: a child is there only after every earlier
\* block's child was waited for.  A block is closed in this order: the END
\* line is written (it is the last thing in the pipe of a child still
\* there), the write end is closed, then the child is waited for; and every
\* closed block has one outcome: its child reaped, or the wait under way or
\* failed.
C11_OneBlockAtATime ==
    /\ \A k \in 1..Len(procs) : k < Len(procs) => procs[k].state = "reaped"
    /\ f >= 0 => f = Len(procs)
    /\ wfd => (f = Len(procs) \/ ForkFailed)
    /\ (f >= 0 /\ procs[f].state = "reaped") => pc = "done"
    /\ pc = "waitpid" =>
           /\ f >= 0 /\ ~wfd
           /\ IsEndLineOf(buffer, OpenLabel)
           /\ ReadEndOpen(procs[f]) => IsSuffix(buffer, procs[f].stdin)
    /\ index = Cardinality(Reaped) + (IF pc = "waitpid" \/ WaitFailed THEN 1 ELSE 0)

\* the second block is being closed: its END line is in the pipe, the write
\* end is closed, its child is the one child not waited for
C11_Witness ==
    /\ pc = "waitpid" /\ f = 2 /\ ~wfd /\ index = 2
    /\ procs[1].state = "reaped"
    /\ procs[2].state = "running"
    /\ procs[2].stdin = BeginLine(LabelB) \o EndLine(LabelB)

(***************************************************************************)
(* C12                                                                     *)
(***************************************************************************)
\* C12: a failed write of a line to the open block's child never ends the
\* run at the write: the run is never ended by line 249, nor by a signal of
\* its own, and ends inside the read loop only by a return statement after
\* the END line of the block was read.
C12_WriteFailureDeferred ==
    /\ result.line # 249
    /\ result.kind # "signal"
    /\ (pc = "done" /\ f >= 0 /\ ~AtEndOfInput) => IsEndLineOf(buffer, OpenLabel)

(***************************************************************************)
(* C13                                                                     *)
(***************************************************************************)
\* C13 (as claimed): with a threshold, a wait that fails for good does not
\* end the run: no run with a threshold ends at line 275.
C13_WaitFailureNotFatalWithThreshold ==
    times # 0 => ~WaitFailed

\* a block was closed and the wait for its child is over without the child
\* reaped: the wait failed
WaitGaveUp == pc # "waitpid" /\ index > Cardinality(Reaped)

\* C13 (amended): with a threshold too, a wait that fails for good ends the
\* run at once with exit status 1, whatever the count of successes: no
\* further line is read and the count is left as it was.
C13_WaitFailureIsFatal ==
    (times # 0 /\ WaitGaveUp) =>
        /\ pc = "done"
        /\ result = Return(EXIT_FAILURE, 275)
        /\ count = Successes
        /\ lines # <<>> /\ lines[Len(lines)] = buffer
        /\ IsEndLineOf(buffer, OpenLabel)

\* the threshold of 1 is reached by block 1; the wait for block 2's child
\* fails and the run ends with 1
C13_Witness ==
    /\ times = 1 /\ count = 1 /\ WaitGaveUp
    /\ Len(procs) = 2 /\ procs[2].state # "reaped"
    /\ result = Return(EXIT_FAILURE, 275)

(***************************************************************************)
(* C14                                                                     *)
(***************************************************************************)
\* C14: a wait interrupted by a signal produces no outcome and is made
\* again: the step leaves the run where it was, waiting for the same child,
\* with nothing counted, and the child, once it has terminated, is reaped by
\* the next attempt; a wait that fails for another reason ends the run with
\* exit status 1.
C14_InterruptedWaitRetried ==
    /\ [][eintr' > eintr =>
             /\ pc = "waitpid" /\ pc' = "waitpid"
             /\ result' = Running
             /\ UNCHANGED <<f, index, count, procs, wfd, pos>>]_vars
    /\ []((pc = "waitpid" /\ eintr > 0 /\ procs[f].state = "exited") =>
              ENABLED WaitpidReaps)
    /\ [](WaitFailed => (pc = "done" /\ result = Return(EXIT_FAILURE, 275)))

\* the wait for a child that has exited was interrupted
C14_Witness ==
    /\ pc = "waitpid" /\ eintr > 0
    /\ procs[f].state = "exited" /\ procs[f].status = StatusExited(7)
    /\ result = Running

(***************************************************************************)
(* C15                                                                     *)
(***************************************************************************)
\* the bytes of block k have all been handed to write, and the child has
\* been there to take them
BlockWritten(k) ==
    /\ pc # "armour" \/ k < Len(procs)
    /\ ReadEndOpen(procs[k]) \/ procs[k].sawEOF

\* C15: what a child has been sent is, byte for byte and in order, the lines
\* read while its block was open, whatever bytes they are made of.
C15_EveryByteForwarded ==
    \A blocks \in {Armoured(lines)} :
        \A k \in 1..Len(procs) :
            BlockWritten(k) => procs[k].stdin = blocks[k].text

(***************************************************************************)
(* C16                                                                     *)
(***************************************************************************)
BeginWord == <<"B", "E", "G", "I", "N", " ">>
EndWord == <<"E", "N", "D", " ">>

\* the length of the run of bytes other than '-' that starts at byte i of s
RECURSIVE LabelRun(_, _)
LabelRun(s, i) ==
    IF i > Len(s) \/ s[i] = "-" THEN 0 ELSE 1 + LabelRun(s, i + 1)

\* bytes i .. i + 4 of s are five dashes
DashesAt(s, i) == i + 4 <= Len(s) /\ SubSeq(s, i, i + 4) = Dashes

\* s starts with the full marker form: five dashes, the word and a blank, a
\* label of one or more bytes other than '-', five dashes
HasFullForm(s, word) ==
    /\ IsPrefix(Dashes \o word, s)
    /\ LET i == Len(Dashes \o word) + 1
           n == LabelRun(s, i)
       IN  n > 0 /\ DashesAt(s, i + n)

\* C16: a block is opened by a line read outside a block if and only if the
\* line has the full BEGIN form (every child's block starts with such a line,
\* and no such line read outside a block goes without a block), and the line
\* that closes a block has the full END form.
C16_FullMarkerForm ==
    \A blocks \in {Armoured(lines)} :
        /\ \A k \in 1..Len(procs) : HasFullForm(blocks[k].text, BeginWord)
        /\ (pc = "fgets" /\ f < 0 /\ lines # <<>>) =>
               (HasFullForm(buffer, BeginWord) =>
                   (blocks # <<>> /\ IsSuffix(buffer, blocks[Len(blocks)].text)))
        /\ pc = "waitpid" => HasFullForm(buffer, EndWord)

(***************************************************************************)
(* C17                                                                     *)
(***************************************************************************)
\* a BEGIN line has just been read and dealt with inside the open block
AfterNestedBegin(blocks) ==
    /\ pc = "fgets" /\ f >= 0
    /\ IsBeginLine(buffer)
    /\ blocks[Len(blocks)].text # buffer

\* C17: a BEGIN line read while a block is open spawns no child and leaves
\* the label of the open block alone: there are never more children than
\* blocks (a block running from its BEGIN line to the END line of that
\* label, BEGIN lines in between being content), the label held while a
\* block is open is the one its child was given, the nested BEGIN line has
\* gone to the child, and the block is closed by the END line of the label
\* of the BEGIN line that opened it.
C17_NestedBeginIsContent ==
    \A blocks \in {Armoured(lines)} :
        /\ Len(procs) <= Len(blocks)
        /\ f >= 0 =>
               /\ f = Len(procs) /\ f = Len(blocks)
               /\ CStr(blabel) = OpenLabel
               /\ OpenLabel = blocks[f].label
        /\ AfterNestedBegin(blocks) =>
               /\ wfd /\ index = f - 1
               /\ ReadEndOpen(procs[f]) => IsSuffix(buffer, procs[f].stdin)
        /\ pc = "waitpid" => IsEndLineOf(buffer, blocks[f].label)

\* BEGIN A, BEGIN B, BEGIN A: the two nested BEGIN lines, of another and of
\* the same label, have gone to the one child of the block, which is still
\* open under its label
C17_Witness ==
    /\ AfterNestedBegin(Armoured(lines))
    /\ f = 1 /\ Len(procs) = 1 /\ wfd
    /\ CStr(blabel) = LabelA
    /\ procs[1].stdin = BeginLine(LabelA) \o BeginLine(LabelB) \o BeginLine(LabelA)

(***************************************************************************)
(* C18                                                                     *)
(***************************************************************************)
\* the commands of the blocks before block k that were found to have exited 0
EarlierSuccesses(k) ==
    Cardinality({j \in 1..(k - 1) : procs[j].state = "reaped" /\ procs[j].status = 0})

\* C18: when the input ends while a block is open, the block is not
\* finished: the write end is still open, the child has not been waited for,
\* index and count are those of the earlier blocks, and the exit status is
\* what the earlier blocks give (0 without a threshold), whatever the child
\* of the open block has done.
C18_UnclosedBlockAtEOF ==
    (AtEndOfInput /\ f >= 0) =>
        /\ wfd
        /\ procs[f].state # "reaped" /\ ~procs[f].sawEOF
        /\ index = f - 1
        /\ count = EarlierSuccesses(f)
        /\ result.kind = "exit"
        /\ result.code = (IF times = 0 \/ EarlierSuccesses(f) >= times THEN 0 ELSE 1)

\* no threshold: the input ends in block 1, whose command has exited with 7,
\* and the exit status is 0
C18_Witness ==
    /\ AtEndOfInput /\ times = 0 /\ f = 1 /\ wfd
    /\ procs[1].state = "exited" /\ procs[1].status = StatusExited(7)
    /\ index = 0 /\ count = 0
    /\ result = Return(EXIT_SUCCESS, 340)

(***************************************************************************)
(* C19                                                                     *)
(***************************************************************************)
\* every child so far runs the command, reads its standard input, and has
\* terminated only after reading it to the end
ChildrenReadToEnd ==
    \A k \in 1..Len(procs) :
        /\ procs[k].state = "running" => procs[k].reads
        /\ procs[k].state \in {"exited", "reaped"} => procs[k].sawEOF

\* the parent is in the write of line 249 with a line that does not fit into
\* the pipe, and the command is running without reading its standard input
StalledInWrite ==
    /\ pc = "armour" /\ f >= 0
    /\ procs[f].state = "running" /\ ~procs[f].reads
    /\ Len(procs[f].stdin) + strlen(buffer) > PipeCapacity

\* C19: if every child reads its standard input to the end and then
\* terminates, the run comes to an end; and with the pipe full and a command
\* that neither reads nor exits, the parent has no step to take: it stays in
\* the write for as long as the command stays.
C19_TerminatesUnlessStalled ==
    /\ <>(pc = "done" \/ ~ChildrenReadToEnd)
    /\ [](StalledInWrite => ~ENABLED ParentNext)

\* the third line of a block does not fit into the pipe of a command that
\* does not read
C19_Witness ==
    /\ StalledInWrite
    /\ Len(lines) = 3
    /\ procs[f].stdin = lines[1] \o lines[2]

(***************************************************************************)
(* C20                                                                     *)
(***************************************************************************)
\* this step closes the open block: the END line of its label has been
\* written and the parent goes on to wait
ClosesBlock ==
    /\ pc = "armour" /\ pc' = "waitpid"
    /\ IsEndLineOf(buffer, OpenLabel)

\* this step finds the command of the closed block to have exited with 0
FindsSuccess ==
    /\ pc = "waitpid"
    /\ procs[f].state = "exited" /\ procs'[f].state = "reaped"
    /\ procs[f].status = StatusExited(0)

\* C20: 0 <= count <= index <= the number of blocks opened; a step changes
\* index only by adding 1, and does so exactly when it closes a block; a
\* step changes count only by adding 1, and does so exactly when it finds
\* the command of a closed block to have exited with status 0.
C20_Counters ==
    /\ [](0 <= count /\ count <= index /\ index <= Len(procs)
            /\ Len(procs) <= Len(Armoured(lines)))
    /\ [][/\ index' = index \/ index' = index + 1
          /\ count' = count \/ count' = count + 1
          /\ (index' = index + 1) <=> ClosesBlock
          /\ (count' = count + 1) <=> FindsSuccess]_vars

\* with a threshold: two blocks closed, the command failed on the first and
\* succeeded on the second
C20_Witness ==
    /\ times # 0 /\ index = 2 /\ count = 1 /\ Len(procs) = 2
    /\ procs[1].state = "reaped" /\ procs[1].status = StatusExited(7)
    /\ procs[2].state = "reaped" /\ procs[2].status = StatusExited(0)
    /\ pc = "fgets"

=============================================================================
